---- MODULE Spec2Model ----
(***************************************************************************)
(* Model of the multi-source hybrid search server (localsearch-mcp):       *)
(*   src/src/indexer.py  BaseHybridIndexer, WikiIndexer, LocalFileIndexer  *)
(*   src/src/server.py   lazy initialisation and the query tools           *)
(*   src/src/loaders.py  load_local_files                                  *)
(*                                                                         *)
(* External libraries are modelled by what the code relies on:             *)
(*  - rank_bm25 / chromadb rank their candidates in an order that depends  *)
(*    on the query; the order is an input of every search action (any      *)
(*    ordering of the candidates), so "every query" is "every ordering".   *)
(*  - a chromadb collection handle refers to the collection it was created *)
(*    for (PersistentClient, collection id); after delete_collection the   *)
(*    handle is stale and every call through it raises.                    *)
(*  - RRF scores are Python floats; the model keeps them as exact          *)
(*    fractions over the common denominator RRF_Scale.  For sums of at     *)
(*    most two reciprocals per list position this coincides with float     *)
(*    comparison (float addition is commutative).                          *)
(***************************************************************************)
EXTENDS Integers, Sequences, FiniteSets, TLC

\* ------------------------------------------------------------------ bounds
MaxTopK == 3

\* longest chunk list handed to the cleaner
MaxChunks == 3

\* build_index is not called on a WikiIndexer that holds more documents
MaxWikiDocs == 5

\* chunk sizes handed to the quality analyzer are multiples of 50 up to
\* 50 * MaxSizeSteps
MaxSizeSteps == 20

\* ------------------------------------------------------- program constants
RRF_K == 60

\* Python None (compared only with records, sets and sequences)
None == [none |-> TRUE]

\* an absent or empty string (falsy in Python)
NoStr == ""

VARIABLES
    chroma,                 \* collection name -> collection in the persistent vector store
    indexers,               \* LocalFileIndexer objects built directly (library use / tests)
    call,                   \* the hybrid_search call just made (NoCall after any other step)
    wiki_pkl,               \* data/wiki_index.pkl (None while the file does not exist)
    environ,                \* os.environ: LOCAL_DOCS_PATH, SKIP_WIKIPEDIA
    wiki_indexer,           \* server.py globals
    local_indexer,
    _local_docs_path_cached,
    _indexers_initialized,
    bg_pc,                  \* position of the background initialisation
    reply                   \* the query tool call just made (NoReply after any other step)

libVars == <<indexers, call>>

serverVars == <<wiki_pkl, environ, wiki_indexer, local_indexer, _local_docs_path_cached,
                _indexers_initialized, bg_pc, reply>>

vars == <<chroma, indexers, call, wiki_pkl, environ, wiki_indexer, local_indexer,
          _local_docs_path_cached, _indexers_initialized, bg_pc, reply>>

\* ------------------------------------------------------------ small helpers
Range(s) == {s[i] : i \in 1..Len(s)}

Min(a, b) == IF a < b THEN a ELSE b

Max(a, b) == IF a > b THEN a ELSE b

\* all orderings of a finite set, as sequences without repetition
Orderings(S) ==
    {s \in [1..Cardinality(S) -> S] : \A i, j \in 1..Cardinality(S) : s[i] = s[j] => i = j}

\* s[1..n]  (Python s[:n])
Take(s, n) == SubSeq(s, 1, Min(n, Len(s)))

RECURSIVE ProductTo(_)
ProductTo(n) == IF n = 0 THEN 1 ELSE (RRF_K + n) * ProductTo(n - 1)

\* common denominator of 1/(RRF_K+1) .. 1/(RRF_K+MaxTopK+1); no ranked list
\* of the model is longer than MaxTopK + 1
RRF_Scale == ProductTo(MaxTopK + 1)

\* variant: the reciprocal of a 1-based rank without the extra 1
RRF_Term_Mut(rank) == RRF_Scale \div (RRF_K + rank)

\* 1 / (RRF_K + rank + 1) for a 0-based rank, as a multiple of 1/RRF_Scale
RRF_Term(rank) == RRF_Scale \div (RRF_K + rank + 1)

\* ------------------------------------------------------------ text universe
\* n pairwise dissimilar chunk texts of 200 characters
Fillers(n) == [k \in 1..n |-> "filler" \o ToString(k)]

FillerTexts == {"filler" \o ToString(k) : k \in 1..100}

\* File contents and the chunk texts the splitter produces from them are
\* named by strings; TextLen is len(text).  " " is a file holding only
\* whitespace, "note" a file shorter than MIN_CHUNK_SIZE.  "report" ..
\* "terms~" are chunk texts handed to the cleaner directly; "c100" has
\* exactly MIN_CHUNK_SIZE characters, " c99 " one fewer between two spaces.
TextLen(t) ==
    CASE t = ""           -> 0
      [] t = " "          -> 1
      [] t = "note"       -> 39
      [] t = "note.1"     -> 39
      [] t = "apples"     -> 260
      [] t = "apples.1"   -> 140
      [] t = "apples.2"   -> 120
      [] t = "bananas"    -> 150
      [] t = "bananas.1"  -> 150
      [] t = "cherries"   -> 130
      [] t = "cherries.1" -> 130
      [] t = "memo"       -> 190
      [] t = "memo.1"     -> 40
      [] t = "memo.2"     -> 150
      [] t = "article"    -> 900
      [] t = "article[:500]..." -> 503
      [] t = "report"     -> 400
      [] t = "report~"    -> 399
      [] t = "legal"      -> 122
      [] t = "page"       -> 102
      [] t = "banner"     -> 130
      [] t = "terms"      -> 189
      [] t = "terms~"     -> 204
      [] t = "report^"    -> 401
      [] t = "c100"       -> 100
      [] t = " c99 "      -> 101
      [] t = "c99"        -> 99
      [] t \in FillerTexts -> 200

\* ------------------------------------------------- BaseHybridIndexer.search
\* A live handle is one whose collection still exists in the store.
HandleLive(store, handle) ==
    /\ handle # None
    /\ store[handle.name] # None
    /\ store[handle.name].owner = handle.owner

\* entries the handle can query (nothing through a stale handle)
LiveEntries(store, handle) ==
    IF HandleLive(store, handle) THEN store[handle.name].entries ELSE {}

\* the candidate orderings rank_bm25 can produce for some query
LexOrders(self) ==
    IF self.bm25 = None THEN {<<>>} ELSE Orderings(1..Len(self.bm25.corpus))

\* the candidate orderings a chromadb query can produce for some query
VecOrders(self, store) == Orderings(LiveEntries(store, self.collection))

\* variant: without the "if not self.bm25" guard the stored documents are returned
search_Mut(self, lex_order, top_k) ==
    IF self.bm25 = None
    THEN Take(self.documents, top_k)
    ELSE LET top_n == Take(lex_order, top_k)
         IN  [j \in 1..Len(top_n) |-> self.documents[top_n[j]]]

\* search(query, top_k): BM25 keyword search
search(self, lex_order, top_k) ==
    IF self.bm25 = None
    THEN <<>>
    ELSE LET top_n == Take(lex_order, top_k)
         IN  [j \in 1..Len(top_n) |-> self.documents[top_n[j]]]

\* variant: a failing store query still yields its hits
vector_search_Mut(self, store, vec_order, backend_ok, top_k) ==
    IF self.collection = None
    THEN <<>>
    ELSE IF ~HandleLive(store, self.collection)
    THEN <<>>
    ELSE LET hits == Take(vec_order, top_k)
         IN  [j \in 1..Len(hits) |->
                 [url |-> hits[j].url, text |-> hits[j].document, path |-> NoStr]]

\* vector_search(query, top_k): any exception of the store is caught and
\* gives [] (backend_ok = FALSE is a failing store query)
vector_search(self, store, vec_order, backend_ok, top_k) ==
    IF self.collection = None
    THEN <<>>
    ELSE IF ~HandleLive(store, self.collection) \/ ~backend_ok
    THEN <<>>
    ELSE LET hits == Take(vec_order, top_k)
         IN  [j \in 1..Len(hits) |->
                 [url |-> hits[j].url, text |-> hits[j].document, path |-> NoStr]]

\* ------------------------------------------ BaseHybridIndexer.hybrid_search
EmptyAcc == [rrf_scores |-> <<>>, keys |-> <<>>, doc_data |-> <<>>, doc_sources |-> <<>>]

\* one pass of "for rank, doc in enumerate(results)" (i is rank + 1);
\* keys is the insertion order of the rrf_scores dict
RECURSIVE Accumulate(_, _, _, _)
Accumulate(results, name, i, acc) ==
    IF i > Len(results) THEN acc
    ELSE LET doc  == results[i]
             url  == doc.url
             seen == url \in DOMAIN acc.rrf_scores
             old  == IF seen THEN acc.rrf_scores[url] ELSE 0
             keep == url \in DOMAIN acc.doc_data
                     /\ ~(TextLen(doc.text) > TextLen(acc.doc_data[url].text))
             srcs == IF url \in DOMAIN acc.doc_sources THEN acc.doc_sources[url] ELSE <<>>
         IN  Accumulate(results, name, i + 1,
                 [rrf_scores  |-> [u \in DOMAIN acc.rrf_scores \cup {url} |->
                                      IF u = url THEN old + RRF_Term(i - 1)
                                      ELSE acc.rrf_scores[u]],
                  keys        |-> IF seen THEN acc.keys ELSE Append(acc.keys, url),
                  doc_data    |-> [u \in DOMAIN acc.doc_data \cup {url} |->
                                      IF u = url THEN (IF keep THEN acc.doc_data[url] ELSE doc)
                                      ELSE acc.doc_data[u]],
                  doc_sources |-> [u \in DOMAIN acc.doc_sources \cup {url} |->
                                      IF u = url THEN Append(srcs, name)
                                      ELSE acc.doc_sources[u]]])

\* variant: x is inserted in front of the keys of equal score
InsertDesc_Mut(sorted, x, score) ==
    LET n == Cardinality({i \in 1..Len(sorted) : score[sorted[i]] > score[x]})
    IN  SubSeq(sorted, 1, n) \o <<x>> \o SubSeq(sorted, n + 1, Len(sorted))

\* insert key x into the non-increasing sequence sorted, behind every key
\* whose score is >= score[x]
InsertDesc(sorted, x, score) ==
    LET n == Cardinality({i \in 1..Len(sorted) : score[sorted[i]] >= score[x]})
    IN  SubSeq(sorted, 1, n) \o <<x>> \o SubSeq(sorted, n + 1, Len(sorted))

\* sorted(keys, key=score, reverse=True): stable, equal scores keep their order
RECURSIVE SortedDesc(_, _, _)
SortedDesc(keys, i, score) ==
    IF i = 0 THEN <<>>
    ELSE InsertDesc(SortedDesc(keys, i - 1, score), keys[i], score)

\* doc['source'] = "both" if len(sources) > 1 else sources[0]
SourceTag(sources) == IF Len(sources) > 1 THEN "both" ELSE sources[1]

hybrid_search(self, store, lex_order, vec_order, backend_ok, top_k, strategy) ==
    LET bm25_results   == IF strategy \in {"keyword", "hybrid"}
                          THEN search(self, lex_order, top_k) ELSE <<>>
        vector_results == IF strategy \in {"semantic", "hybrid"}
                          THEN vector_search(self, store, vec_order, backend_ok, top_k)
                          ELSE <<>>
        acc1 == Accumulate(bm25_results, "bm25", 1, EmptyAcc)
        acc2 == Accumulate(vector_results, "vector", 1, acc1)
        sorted_urls == Take(SortedDesc(acc2.keys, Len(acc2.keys), acc2.rrf_scores), top_k)
    IN  [bm25_results   |-> bm25_results,
         vector_results |-> vector_results,
         rrf_scores     |-> acc2.rrf_scores,
         keys           |-> acc2.keys,
         results        |-> [j \in 1..Len(sorted_urls) |->
                                [url    |-> acc2.doc_data[sorted_urls[j]].url,
                                 text   |-> acc2.doc_data[sorted_urls[j]].text,
                                 path   |-> acc2.doc_data[sorted_urls[j]].path,
                                 source |-> SourceTag(acc2.doc_sources[sorted_urls[j]])]]]

\* ------------------------------------------------------ ContentCleaner
MIN_CHUNK_SIZE == 100

NEAR_DUPLICATE_THRESHOLD == 9500        \* 0.95, in ten-thousandths

BOILERPLATE_MIN_OCCURRENCES == 3

NearDuplicateWindow == 100              \* min(100, len(seen_contents))

BoilerplateLineMin == 20                \* len(line) > 20

BoilerplateRatioNum == 8                \* boilerplate_lines / len(lines) > 0.8

BoilerplateRatioDen == 10

\* str.strip(): " " is a text of whitespace only, " c99 " is "c99" between
\* two spaces; the other texts of the universe carry no surrounding
\* whitespace
Strip(t) == IF t = " " THEN NoStr ELSE IF t = " c99 " THEN "c99" ELSE t

\* variant: a chunk of exactly MIN_CHUNK_SIZE characters is too small
TooSmall_Mut(content) == TextLen(content) <= MIN_CHUNK_SIZE

\* len(content) < MIN_CHUNK_SIZE
TooSmall(content) == TextLen(content) < MIN_CHUNK_SIZE

\* hashlib.md5(content).hexdigest(), taken to be collision free
_hash_content(content) == <<"md5", content>>

\* SequenceMatcher(None, a, b).ratio() in ten-thousandths
Similarity(a, b) ==
    IF a = b THEN 10000
    ELSE IF {a, b} = {"apples.1", "apples.2"} THEN 4100
    ELSE IF {a, b} = {"report", "report~"} THEN 9500
    ELSE IF {a, b} = {"report", "report^"} THEN 9499
    ELSE IF {a, b} = {"report~", "report^"} THEN 9300
    ELSE IF {a, b} = {"terms", "terms~"} THEN 9600
    ELSE IF {a, b} = {"legal", "terms~"} THEN 7500
    ELSE 1200

\* the stripped, non-empty lines of a text
TextLines(t) ==
    CASE t = "apples.1"   -> <<"apples are red and grow on trees", "# A">>
      [] t = "apples.2"   -> <<"apple pie needs apples and sugar">>
      [] t = "bananas.1"  -> <<"bananas are yellow and grow in bunches">>
      [] t = "cherries.1" -> <<"cherries are small and grow on trees">>
      [] t = "note.1"     -> <<"# Document", "a short note">>
      [] t = "memo.1"     -> <<"# Memo", "to all staff">>
      [] t = "memo.2"     -> <<"the memo is about the opening hours in winter">>
      [] t = "report"     -> <<"the quarterly report for the first quarter">>
      [] t = "report~"    -> <<"the quarterly report of the first quarter">>
      [] t = "report^"    -> <<"the quarterly report on the first quarters">>
      [] t = "c100"       -> <<"a paragraph of one hundred characters">>
      [] t = "c99"        -> <<"a paragraph of ninety-nine characters">>
      [] t \in FillerTexts -> <<t>>
      [] t = "legal"      -> <<"copyright notice line", "copyright notice line",
                               "copyright notice line">>
      [] t = "page"       -> <<"copyright notice line", "the body of page one",
                               "more body of page one">>
      [] t = "banner"     -> <<"copyright notice line, 2024 edition">>
      [] t = "terms"      -> <<"copyright notice line", "copyright notice line",
                               "copyright notice line", "copyright notice line",
                               "all rights reserved by us">>
      [] t = "terms~"     -> <<"copyright notice line", "copyright notice line",
                               "copyright notice line", "copyright notice line",
                               "copyright notice line">>
      [] OTHER            -> <<>>

LineLen(l) ==
    CASE l = "# A"          -> 3
      [] l = "# Document"   -> 10
      [] l = "a short note" -> 12
      [] OTHER              -> 30

\* "pattern in line" for two stripped lines
LineContains(line, pattern) ==
    \/ line = pattern
    \/ line = "copyright notice line, 2024 edition" /\ pattern = "copyright notice line"

\* number of positions of the sequence that satisfy a membership test
CountIn(s, S) == Cardinality({i \in 1..Len(s) : s[i] \in S})

\* the concatenation of ss[lo..hi], halving the range
RECURSIVE FlattenRange(_, _, _)
FlattenRange(ss, lo, hi) ==
    IF lo > hi THEN <<>>
    ELSE IF lo = hi THEN ss[lo]
    ELSE FlattenRange(ss, lo, (lo + hi) \div 2) \o FlattenRange(ss, (lo + hi) \div 2 + 1, hi)

Flatten(ss) == FlattenRange(ss, 1, Len(ss))

\* variant: a line of a short input needs as many occurrences as there are chunks
_detect_boilerplate_patterns_Mut(chunks) ==
    LET all_lines == Flatten([i \in 1..Len(chunks) |-> TextLines(chunks[i].page_content)])
    IN  {l \in Range(all_lines) :
            /\ LineLen(l) > BoilerplateLineMin
            /\ CountIn(all_lines, {l}) >= Min(BOILERPLATE_MIN_OCCURRENCES, Len(chunks))}

\* _detect_boilerplate_patterns: lines longer than 20 characters that occur
\* at least BOILERPLATE_MIN_OCCURRENCES times over all input chunks
_detect_boilerplate_patterns(chunks) ==
    LET all_lines == Flatten([i \in 1..Len(chunks) |-> TextLines(chunks[i].page_content)])
    IN  {l \in Range(all_lines) :
            /\ LineLen(l) > BoilerplateLineMin
            /\ CountIn(all_lines, {l}) >= BOILERPLATE_MIN_OCCURRENCES}

\* _is_boilerplate: more than 80% of the lines contain a pattern
_is_boilerplate(content, patterns) ==
    LET lines == TextLines(content)
        hit   == {l \in Range(lines) : \E p \in patterns : LineContains(l, p)}
    IN  /\ patterns # {}
        /\ lines # <<>>
        /\ CountIn(lines, hit) * BoilerplateRatioDen > BoilerplateRatioNum * Len(lines)

\* variant: a similarity equal to the threshold is not a near duplicate
_is_near_duplicate_Mut(content, seen_contents) ==
    LET check_limit == Min(NearDuplicateWindow, Len(seen_contents))
        recent == SubSeq(seen_contents, Len(seen_contents) - check_limit + 1, Len(seen_contents))
    IN  \E i \in 1..Len(recent) : Similarity(content, recent[i]) > NEAR_DUPLICATE_THRESHOLD

\* _is_near_duplicate: against the last min(100, n) accepted contents
_is_near_duplicate(content, seen_contents) ==
    LET check_limit == Min(NearDuplicateWindow, Len(seen_contents))
        recent == SubSeq(seen_contents, Len(seen_contents) - check_limit + 1, Len(seen_contents))
    IN  \E i \in 1..Len(recent) : Similarity(content, recent[i]) >= NEAR_DUPLICATE_THRESHOLD

NewCleaner(patterns) ==
    [seen_hashes |-> {}, seen_contents |-> <<>>, boilerplate_patterns |-> patterns,
     cleaned |-> <<>>,
     too_small_removed |-> 0, exact_duplicates_removed |-> 0,
     near_duplicates_removed |-> 0, boilerplate_removed |-> 0]

\* variant: the near-duplicate test comes before the exact-duplicate test
CleanOne_Mut(st, chunk, detect_boilerplate) ==
    LET content == Strip(chunk.page_content)
    IN  IF content = NoStr
        THEN [st EXCEPT !.too_small_removed = @ + 1]
        ELSE IF TooSmall(content)
        THEN [st EXCEPT !.too_small_removed = @ + 1]
        ELSE IF _is_near_duplicate(content, st.seen_contents)
        THEN [st EXCEPT !.near_duplicates_removed = @ + 1]
        ELSE IF _hash_content(content) \in st.seen_hashes
        THEN [st EXCEPT !.exact_duplicates_removed = @ + 1]
        ELSE IF detect_boilerplate /\ _is_boilerplate(content, st.boilerplate_patterns)
        THEN [st EXCEPT !.boilerplate_removed = @ + 1]
        ELSE [st EXCEPT !.seen_hashes = @ \cup {_hash_content(content)},
                        !.seen_contents = Append(@, content),
                        !.cleaned = Append(@, chunk)]

\* the loop body of clean_chunks for one chunk
CleanOne(st, chunk, detect_boilerplate) ==
    LET content == Strip(chunk.page_content)
    IN  IF content = NoStr
        THEN [st EXCEPT !.too_small_removed = @ + 1]
        ELSE IF TooSmall(content)
        THEN [st EXCEPT !.too_small_removed = @ + 1]
        ELSE IF _hash_content(content) \in st.seen_hashes
        THEN [st EXCEPT !.exact_duplicates_removed = @ + 1]
        ELSE IF _is_near_duplicate(content, st.seen_contents)
        THEN [st EXCEPT !.near_duplicates_removed = @ + 1]
        ELSE IF detect_boilerplate /\ _is_boilerplate(content, st.boilerplate_patterns)
        THEN [st EXCEPT !.boilerplate_removed = @ + 1]
        ELSE [st EXCEPT !.seen_hashes = @ \cup {_hash_content(content)},
                        !.seen_contents = Append(@, content),
                        !.cleaned = Append(@, chunk)]

\* the loop of clean_chunks over chunks[lo..hi], in order: the range is
\* halved, the first half is cleaned, then the second half from the state
\* the first ended in (the one element of the set half ranges over)
RECURSIVE CleanLoop(_, _, _, _, _)
CleanLoop(st, chunks, lo, hi, detect_boilerplate) ==
    IF lo > hi THEN st
    ELSE IF lo = hi THEN CleanOne(st, chunks[lo], detect_boilerplate)
    ELSE CHOOSE end \in
            {CleanLoop(half, chunks, (lo + hi) \div 2 + 1, hi, detect_boilerplate) :
                half \in {CleanLoop(st, chunks, lo, (lo + hi) \div 2, detect_boilerplate)}} :
            TRUE

\* clean_chunks(chunks, detect_boilerplate): the cleaner state after the
\* call; .cleaned is the returned list, the counters are CleaningStats
clean_chunks(chunks, detect_boilerplate) ==
    CleanLoop(NewCleaner(IF detect_boilerplate THEN _detect_boilerplate_patterns(chunks) ELSE {}),
              chunks, 1, Len(chunks), detect_boilerplate)

\* the cleaner state before the loop and after each chunk of the input
\* (position k + 1 is the state after k chunks)
CleanSteps(chunks, detect_boilerplate) ==
    [k \in 1..Len(chunks) + 1 |->
        CleanLoop(NewCleaner(IF detect_boilerplate
                             THEN _detect_boilerplate_patterns(chunks) ELSE {}),
                  chunks, 1, k - 1, detect_boilerplate)]

\* ------------------------------------------------------------- file system
\* the directories LOCAL_DOCS_PATH can name
Dirs == {"d1", "d2"}

\* the files a directory can hold, in the order glob lists them (d0 is the
\* directory of an indexer used directly)
FileSeq(dir) ==
    CASE dir \in {"d0", "d1"} -> <<"a.md", "b.md">>
      [] dir = "d2" -> <<"c.md">>
      [] OTHER      -> <<"A.md", "B.md", "C.md">>

NoFile == "<no file>"

\* the contents a file of the directory can have
Contents(dir) ==
    CASE dir = "d0" -> {" ", "apples", "bananas", "memo"}
      [] dir = "d1" -> {" ", "apples"}
      [] dir = "d2" -> {" ", "note", "bananas"}
      [] OTHER      -> {"note", "apples", "bananas", "cherries"}

PathOf(dir, file) == dir \o "/" \o file

\* RecursiveCharacterTextSplitter / MarkdownHeaderTextSplitter on one document
SplitText(content) ==
    CASE content = "apples"   -> <<"apples.1", "apples.2">>
      [] content = "bananas"  -> <<"bananas.1">>
      [] content = "cherries" -> <<"cherries.1">>
      [] content = "note"     -> <<"note.1">>
      [] content = "memo"     -> <<"memo.1", "memo.2">>
      [] OTHER                -> <<>>

\* ------------------------------------------------------- load_local_files
\* one document per non-blank file (id, title and source are not modelled)
RECURSIVE LoadFrom(_, _, _)
LoadFrom(dir, files, i) ==
    IF i > Len(FileSeq(dir)) THEN <<>>
    ELSE LET content == files[FileSeq(dir)[i]]
             rest    == LoadFrom(dir, files, i + 1)
         IN  IF content = NoFile \/ Strip(content) = NoStr
             THEN rest
             ELSE <<[url  |-> "file://" \o PathOf(dir, FileSeq(dir)[i]),
                     text |-> content,
                     path |-> PathOf(dir, FileSeq(dir)[i])]>> \o rest

\* variant: the first file glob lists is left out
load_local_files_Mut(directory_path, disk) == LoadFrom(directory_path, disk[directory_path], 2)

\* load_local_files(directory_path, extensions)
load_local_files(directory_path, disk) == LoadFrom(directory_path, disk[directory_path], 1)

\* ------------------------------------------------------- LocalFileIndexer
CollectionNames == {"local_files", "wikipedia"}

batch_size == 50

\* variant: the collection is named after the path as it was given
NewLocalFileIndexer_Mut(obj, directory_path) ==
    [obj             |-> obj,
     directory_path  |-> directory_path,
     collection_name |-> "local_files:" \o directory_path,
     bm25            |-> None,
     documents       |-> <<>>,
     collection      |-> None,
     last_pass       |-> None,
     last_build      |-> "never"]

\* LocalFileIndexer.__init__ (obj is the identity of the new object;
\* last_pass / last_build record the latest build_index call)
NewLocalFileIndexer(obj, directory_path) ==
    [obj             |-> obj,
     directory_path  |-> directory_path,
     collection_name |-> "local_files",
     bm25            |-> None,
     documents       |-> <<>>,
     collection      |-> None,
     last_pass       |-> None,
     last_build      |-> "never"]

\* chunk_documents for one document plus the chunk_index loop (436-446)
ChunksOf(doc) ==
    LET texts == SplitText(doc.text)
    IN  [i \in 1..Len(texts) |->
            [page_content |-> texts[i], url |-> doc.url, chunk_index |-> i - 1]]

AllChunks(documents) == Flatten([d \in 1..Len(documents) |-> ChunksOf(documents[d])])

\* variant: the identifier carries the parent document only
ChunkId_Mut(chunk) == chunk.url \o "#chunk"

\* chunk_id = f"{url}#chunk{chunk_index}" and the entry handed to collection.add
ChunkId(chunk) == chunk.url \o "#chunk" \o ToString(chunk.chunk_index)

EntryOf(chunk) ==
    [id |-> ChunkId(chunk), document |-> chunk.page_content, url |-> chunk.url]

\* the entries build_index sends to the vector store for a document list
CleanedEntries(documents) ==
    LET cleaned == clean_chunks(AllChunks(documents), TRUE).cleaned
    IN  [i \in 1..Len(cleaned) |-> EntryOf(cleaned[i])]

\* collection.add of one batch: ids already present are left as they are
AddBatch(entries, batch) ==
    entries \cup {e \in Range(batch) : \A x \in entries : x.id # e.id}

RECURSIVE AddBatches(_, _, _, _)
AddBatches(entries, all, i, stop) ==
    IF i >= Len(all) \/ i >= stop THEN entries
    ELSE AddBatches(AddBatch(entries, SubSeq(all, i + 1, Min(i + batch_size, Len(all)))),
                    all, i + batch_size, stop)

\* the points at which build_index can raise:
\*   "create"   create_collection raises after delete_collection
\*   "pipeline" analysis, chunking, cleaning or metrics raise
\*   "add"      collection.add raises in batch number fail_batch (0-based)
BuildFailures == {"no", "create", "pipeline", "add"}

\* LocalFileIndexer.build_index; .raised tells whether the call raised
build_index(self, store, disk, fail, fail_batch) ==
    LET raw_documents == load_local_files(self.directory_path, disk)
        seen   == [self EXCEPT !.last_pass = raw_documents]
        lex    == [seen EXCEPT !.documents = raw_documents,
                               !.bm25 = [corpus |-> [i \in 1..Len(raw_documents) |->
                                                        raw_documents[i].text]]]
        handle == [name |-> self.collection_name, owner |-> self.obj]
        deleted == [store EXCEPT ![self.collection_name] = None]
        created == [store EXCEPT ![self.collection_name] = [owner |-> self.obj, entries |-> {}]]
        entries == CleanedEntries(raw_documents)
        stop    == IF fail = "add" THEN fail_batch * batch_size ELSE Len(entries)
        filled  == [created EXCEPT ![self.collection_name].entries =
                                       AddBatches({}, entries, 0, stop)]
    IN  IF raw_documents = <<>>
        THEN [self |-> [seen EXCEPT !.bm25 = None, !.last_build = "empty"],
              store |-> store, raised |-> FALSE]
        ELSE IF fail = "create"
        THEN [self |-> [lex EXCEPT !.last_build = "raised"],
              store |-> deleted, raised |-> TRUE]
        ELSE IF fail = "pipeline"
        THEN [self |-> [lex EXCEPT !.collection = handle, !.last_build = "raised"],
              store |-> created, raised |-> TRUE]
        ELSE IF fail = "add" /\ entries # <<>>
        THEN [self |-> [lex EXCEPT !.collection = handle, !.last_build = "raised"],
              store |-> filled, raised |-> TRUE]
        ELSE [self |-> [lex EXCEPT !.collection = handle, !.last_build = "ok"],
              store |-> filled, raised |-> FALSE]

\* ------------------------------------------------------------- WikiIndexer
\* the rows load_dataset yields (WIKI_SUBSET_SIZE rows of the dump)
WikiRows == <<[url |-> "wiki/Apple", text |-> "article"]>>

PreviewLen == 500

\* text[:500] + "..." if len(text) > 500 else text
Preview(text) == IF TextLen(text) > PreviewLen THEN text \o "[:500]..." ELSE text

wiki_batch_size == 100

\* WikiIndexer.__init__
NewWikiIndexer ==
    [obj             |-> "wiki",
     collection_name |-> "wikipedia",
     bm25            |-> None,
     documents       |-> <<>>,
     collection      |-> None,
     last_build      |-> "never"]

\* the loop over the dataset rows (228-239): one document per row, appended
\* to self.documents
WikiDocuments(rows) ==
    [i \in 1..Len(rows) |-> [url |-> rows[i].url, text |-> Preview(rows[i].text), path |-> NoStr]]

WikiEntry(doc) == [id |-> doc.url, document |-> doc.text, url |-> doc.url]

\* collection.add raises on an id that is repeated inside the batch
DistinctIds(batch) == \A i, j \in 1..Len(batch) : batch[i].id = batch[j].id => i = j

\* number of whole batches that can be added before a batch with a
\* repeated id (or the failing batch fail_batch) raises
RECURSIVE WikiAdd(_, _, _, _)
WikiAdd(entries, all, i, fail_batch) ==
    IF i >= Len(all) THEN [entries |-> entries, raised |-> FALSE]
    ELSE LET batch == SubSeq(all, i + 1, Min(i + wiki_batch_size, Len(all)))
         IN  IF i = fail_batch * wiki_batch_size \/ ~DistinctIds(batch)
             THEN [entries |-> entries, raised |-> TRUE]
             ELSE WikiAdd(AddBatch(entries, batch), all, i + wiki_batch_size, fail_batch)

\* the points at which WikiIndexer.build_index can raise:
\*   "dataset" load_dataset raises          "pickle" writing the index file raises
\*   "create"  create_collection raises     "add"    collection.add raises in batch 0
WikiFailures == {"no", "dataset", "pickle", "create", "add"}

\* WikiIndexer.build_index; pkl is the index file on disk (None when missing)
wiki_build_index(self, store, pkl, fail) ==
    LET documents == self.documents \o WikiDocuments(WikiRows)
        lex  == [self EXCEPT !.documents = documents,
                             !.bm25 = [corpus |-> [i \in 1..Len(WikiRows) |-> WikiRows[i].text]]]
        saved   == [bm25 |-> lex.bm25, documents |-> documents]
        handle  == [name |-> self.collection_name, owner |-> self.obj]
        deleted == [store EXCEPT ![self.collection_name] = None]
        created == [store EXCEPT ![self.collection_name] = [owner |-> self.obj, entries |-> {}]]
        added   == WikiAdd({}, [i \in 1..Len(documents) |-> WikiEntry(documents[i])], 0,
                           IF fail = "add" THEN 0 ELSE Len(documents))
        filled  == [created EXCEPT ![self.collection_name].entries = added.entries]
    IN  IF fail = "dataset"
        THEN [self |-> [self EXCEPT !.last_build = "raised"],
              store |-> store, pkl |-> pkl, raised |-> TRUE]
        ELSE IF fail = "pickle"
        THEN [self |-> [lex EXCEPT !.last_build = "raised"],
              store |-> store, pkl |-> pkl, raised |-> TRUE]
        ELSE IF fail = "create"
        THEN [self |-> [lex EXCEPT !.last_build = "raised"],
              store |-> deleted, pkl |-> saved, raised |-> TRUE]
        ELSE IF added.raised
        THEN [self |-> [lex EXCEPT !.collection = handle, !.last_build = "raised"],
              store |-> filled, pkl |-> saved, raised |-> TRUE]
        ELSE [self |-> [lex EXCEPT !.collection = handle, !.last_build = "ok"],
              store |-> filled, pkl |-> saved, raised |-> FALSE]

\* WikiIndexer.load_or_build: load the pickled index when the file exists
\* (get_collection failing leaves collection = None), else build
load_or_build(self, store, pkl, fail) ==
    IF pkl # None
    THEN [self |-> [self EXCEPT !.bm25 = pkl.bm25,
                                !.documents = pkl.documents,
                                !.collection = IF store[self.collection_name] # None
                                               THEN [name  |-> self.collection_name,
                                                     owner |-> store[self.collection_name].owner]
                                               ELSE None,
                                !.last_build = "loaded"],
          store |-> store, pkl |-> pkl, raised |-> FALSE]
    ELSE wiki_build_index(self, store, pkl, fail)

\* ------------------------------------------------------------------ calls
Strategies == {"keyword", "semantic", "hybrid"}

NoCall == [op |-> "none"]

\* the record kept of a hybrid_search call on indexer self
CallRecord(inst, self, store, lex_order, vec_order, backend_ok, top_k, strategy) ==
    LET h == hybrid_search(self, store, lex_order, vec_order, backend_ok, top_k, strategy)
    IN  [op             |-> "hybrid_search",
         inst           |-> inst,
         top_k          |-> top_k,
         strategy       |-> strategy,
         backend_ok     |-> backend_ok,
         last_build     |-> self.last_build,
         bm25_results   |-> h.bm25_results,
         vector_results |-> h.vector_results,
         rrf_scores     |-> h.rrf_scores,
         keys           |-> h.keys,
         results        |-> h.results]

\* ------------------------------------- specification: indexers used directly
\* Two LocalFileIndexer objects for two directories, as in
\* tests/test_path_isolation.py; files may change on disk between builds.
Inst == {1, 2}

InstDir(i) == IF i = 1 THEN "d0" ELSE "d2"

\* what a directory can hold when a build scans it
DirStates(dir) == [Range(FileSeq(dir)) -> Contents(dir) \cup {NoFile}]

NoReply == [op |-> "none"]

\* the server module is not loaded
ServerIdle ==
    /\ wiki_pkl = None
    /\ environ = [LOCAL_DOCS_PATH |-> NoStr, SKIP_WIKIPEDIA |-> FALSE]
    /\ wiki_indexer = None
    /\ local_indexer = None
    /\ _local_docs_path_cached = NoStr
    /\ _indexers_initialized = FALSE
    /\ bg_pc = "not_started"
    /\ reply = NoReply

InitLocal ==
    /\ chroma = [n \in CollectionNames |-> None]
    /\ indexers = [i \in Inst |-> NewLocalFileIndexer(i, InstDir(i))]
    /\ call = NoCall
    /\ ServerIdle

\* the record kept of a build_index call on indexer self: the files it
\* scanned and what the indexer held before the call
BuildRecord(inst, self, store, files, b) ==
    [op               |-> "build_index",
     inst             |-> inst,
     files            |-> files,
     raised           |-> b.raised,
     before_documents |-> self.documents,
     before_entries   |-> LiveEntries(store, self.collection)]

\* indexer i scans its directory, whose files are an input of the call
BuildIndex(i) ==
    /\ call = NoCall
    /\ \E files \in DirStates(indexers[i].directory_path), fail \in BuildFailures :
          \E b \in {build_index(indexers[i], chroma,
                                [d \in {indexers[i].directory_path} |-> files], fail, 0)} :
              /\ indexers' = [indexers EXCEPT ![i] = b.self]
              /\ chroma' = b.store
              /\ call' = BuildRecord(i, indexers[i], chroma, files, b)
              /\ UNCHANGED serverVars

HybridSearch(i) ==
    /\ call = NoCall
    /\ \E top_k \in 1..MaxTopK, strategy \in Strategies, backend_ok \in BOOLEAN :
      \E lex_order \in LexOrders(indexers[i]), vec_order \in VecOrders(indexers[i], chroma) :
        /\ call' = CallRecord(i, indexers[i], chroma, lex_order, vec_order,
                              backend_ok, top_k, strategy)
        /\ UNCHANGED <<chroma, indexers>>
        /\ UNCHANGED serverVars

\* the caller takes the result; requests are handled one at a time
Return ==
    /\ call # NoCall
    /\ call' = NoCall
    /\ UNCHANGED <<chroma, indexers>>
    /\ UNCHANGED serverVars

NextLocal ==
    \/ \E i \in Inst : BuildIndex(i)
    \/ \E i \in Inst : HybridSearch(i)
    \/ Return

SpecLocal == InitLocal /\ [][NextLocal]_vars

\* ------------------------------ specification: hybrid_search on a built index
\* One indexer built over the directory "docs" of up to three files A, B, C:
\* a file of two chunks puts its identifier twice into the vector list, a
\* short file or the copy of another file has no chunk in the collection.
InitFusion ==
    /\ \E files \in DirStates("docs") :
          \E b \in {build_index(NewLocalFileIndexer(1, "docs"),
                                [n \in CollectionNames |-> None],
                                [d \in {"docs"} |-> files], "no", 0)} :
              /\ indexers = [i \in {1} |-> b.self]
              /\ chroma = b.store
    /\ call = NoCall
    /\ ServerIdle

NextFusion ==
    \/ HybridSearch(1)
    \/ Return

SpecFusion == InitFusion /\ [][NextFusion]_vars

\* --------------------------------- specification: the cleaner used directly
\* clean_chunks is called on a list of up to MaxChunks chunks and, before
\* the caller drops the result, once more on the list it returned.
CleanTexts == {" ", "note.1", "c100", " c99 ", "report", "report~", "legal", "page",
               "banner", "terms", "terms~"}

\* Document objects with the given page contents
MakeChunks(texts) ==
    [k \in 1..Len(texts) |-> [page_content |-> texts[k], url |-> "doc", chunk_index |-> k - 1]]

\* lists that reach past the near-duplicate window: a chunk, as many or one
\* fewer dissimilar chunks than the window holds, and a chunk similar to the
\* first
LongLists ==
    {MakeChunks(<<"report">> \o Fillers(n) \o <<last>>) :
        n \in {NearDuplicateWindow - 1, NearDuplicateWindow}, last \in {"report~", "report^"}}

ChunkLists ==
    UNION {{MakeChunks(texts) : texts \in [1..n -> CleanTexts]} : n \in 0..MaxChunks}
        \cup LongLists

\* the record kept of a clean_chunks call; previous is the input of the
\* call whose output this call was given (pass 2)
CleanRecord(pass, chunks, detect_boilerplate, previous) ==
    [op                 |-> "clean_chunks",
     pass               |-> pass,
     chunks             |-> chunks,
     detect_boilerplate |-> detect_boilerplate,
     previous           |-> previous,
     steps              |-> CleanSteps(chunks, detect_boilerplate),
     result             |-> clean_chunks(chunks, detect_boilerplate)]

InitClean ==
    /\ chroma = [n \in CollectionNames |-> None]
    /\ indexers = <<>>
    /\ call = NoCall
    /\ ServerIdle

\* cleaned, stats = cleaner.clean_chunks(chunks, detect_boilerplate)
CleanChunks ==
    /\ call = NoCall
    /\ \E chunks \in ChunkLists, detect_boilerplate \in BOOLEAN :
          call' = CleanRecord(1, chunks, detect_boilerplate, <<>>)
    /\ UNCHANGED <<chroma, indexers>>
    /\ UNCHANGED serverVars

\* cleaned2, stats2 = cleaner.clean_chunks(cleaned, detect_boilerplate)
CleanAgain ==
    /\ call.op = "clean_chunks"
    /\ call.pass = 1
    /\ call' = CleanRecord(2, call.result.cleaned, call.detect_boilerplate, call.chunks)
    /\ UNCHANGED <<chroma, indexers>>
    /\ UNCHANGED serverVars

NextClean ==
    \/ CleanChunks
    \/ CleanAgain
    \/ Return

SpecClean == InitClean /\ [][NextClean]_vars

\* ------------------------- specification: a WikiIndexer used directly
\* One WikiIndexer object on which load_or_build() and build_index() are
\* called in any order; the index file and the vector store persist
\* between the calls.
InitWiki ==
    /\ chroma = [n \in CollectionNames |-> None]
    /\ indexers = [i \in {1} |-> NewWikiIndexer]
    /\ call = NoCall
    /\ ServerIdle

\* the record kept of a call on the WikiIndexer; ids is the list build_index
\* made for collection.add (empty when the call did not get that far)
WikiRecord(op, b, got_to_add) ==
    [op     |-> op,
     raised |-> b.raised,
     ids    |-> IF got_to_add
                THEN [i \in 1..Len(b.self.documents) |-> WikiEntry(b.self.documents[i]).id]
                ELSE <<>>]

\* indexer.build_index()
WikiBuildIndex ==
    /\ call = NoCall
    /\ Len(indexers[1].documents) <= MaxWikiDocs
    /\ \E fail \in WikiFailures :
          \E b \in {wiki_build_index(indexers[1], chroma, wiki_pkl, fail)} :
              /\ indexers' = [indexers EXCEPT ![1] = b.self]
              /\ chroma' = b.store
              /\ wiki_pkl' = b.pkl
              /\ call' = WikiRecord("wiki_build_index", b, fail \in {"no", "add"})
    /\ UNCHANGED <<environ, wiki_indexer, local_indexer, _local_docs_path_cached,
                   _indexers_initialized, bg_pc, reply>>

\* indexer.load_or_build()
WikiLoadOrBuild ==
    /\ call = NoCall
    /\ Len(indexers[1].documents) <= MaxWikiDocs
    /\ \E fail \in WikiFailures :
          \E b \in {load_or_build(indexers[1], chroma, wiki_pkl, fail)} :
              /\ indexers' = [indexers EXCEPT ![1] = b.self]
              /\ chroma' = b.store
              /\ wiki_pkl' = b.pkl
              /\ call' = WikiRecord("load_or_build", b,
                                    wiki_pkl = None /\ fail \in {"no", "add"})
    /\ UNCHANGED <<environ, wiki_indexer, local_indexer, _local_docs_path_cached,
                   _indexers_initialized, bg_pc, reply>>

NextWiki ==
    \/ WikiBuildIndex
    \/ WikiLoadOrBuild
    \/ Return

SpecWiki == InitWiki /\ [][NextWiki]_vars

\* ------------------------------------------------------- QualityAnalyzer
\* Python floats are kept as exact fractions num / den (den > 0); the
\* comparisons of the code are made by cross multiplication.
Frac(num, den) == [num |-> num, den |-> den]

Less(x, y) == x.num * y.den < y.num * x.den

\* min(1.0, max(0.0, x))
Clamp01(x) ==
    IF Less(x, Frac(0, 1)) THEN Frac(0, 1)
    ELSE IF Less(Frac(1, 1), x) THEN Frac(1, 1)
    ELSE x

\* np.mean and np.std (population) of two sizes: (a + b) / 2 and |a - b| / 2
Mean2(a, b) == Frac(a + b, 2)

Std2(a, b) == Frac(IF a < b THEN b - a ELSE a - b, 2)

\* _estimate_pca_variance(sizes) for a list of at most two sizes (the
\* standard deviation of a longer list is not a fraction in general)
_estimate_pca_variance(sizes) ==
    IF Len(sizes) < 2 THEN Frac(5, 10)
    ELSE LET mean_size == Mean2(sizes[1], sizes[2])
             std_size  == Std2(sizes[1], sizes[2])
             cv        == Frac(std_size.num * mean_size.den, std_size.den * mean_size.num)
         IN  IF mean_size.num = 0 THEN Frac(0, 1)
             ELSE IF Less(cv, Frac(1, 10)) THEN Clamp01(Frac(3, 10))
             ELSE IF Less(Frac(8, 10), cv) THEN Clamp01(Frac(4, 10))
             ELSE \* 0.5 + (cv - 0.4) * 0.5  =  (3 * den + 5 * num) / (10 * den)
                  Clamp01(Frac(3 * cv.den + 5 * cv.num, 10 * cv.den))

\* ------------------------- specification: the variance estimate used directly
\* _estimate_pca_variance is called on a list of at most two chunk sizes.
ChunkSizes == {50 * k : k \in 0..MaxSizeSteps}

SizeLists == UNION {[1..n -> ChunkSizes] : n \in 0..2}

InitQuality ==
    /\ chroma = [n \in CollectionNames |-> None]
    /\ indexers = <<>>
    /\ call = NoCall
    /\ ServerIdle

\* variance_ratio = self._estimate_pca_variance(sizes)
EstimatePcaVariance ==
    /\ call = NoCall
    /\ \E sizes \in SizeLists :
          call' = [op |-> "_estimate_pca_variance", sizes |-> sizes,
                   result |-> _estimate_pca_variance(sizes)]
    /\ UNCHANGED <<chroma, indexers>>
    /\ UNCHANGED serverVars

NextQuality ==
    \/ EstimatePcaVariance
    \/ Return

SpecQuality == InitQuality /\ [][NextQuality]_vars

\* ------------------- specification: indexers constructed for spelled paths
\* Three LocalFileIndexer objects, each constructed (and constructed again)
\* with a directory as given, with a trailing separator or in absolute
\* form, as in tests/test_path_isolation.py.
Objs == {1, 2, 3}

\* tmpdir, tmpdir + os.sep and os.path.abspath(tmpdir) of one directory
PathForms(dir) == {dir, dir \o "/", "/cwd/" \o dir}

InitPaths ==
    /\ chroma = [n \in CollectionNames |-> None]
    /\ indexers = [i \in Objs |-> None]
    /\ call = NoCall
    /\ ServerIdle

\* indexer = LocalFileIndexer(path)
Construct(i, path) ==
    /\ indexers' = [indexers EXCEPT ![i] = NewLocalFileIndexer(i, path)]
    /\ UNCHANGED <<chroma, call>>
    /\ UNCHANGED serverVars

NextPaths ==
    \E i \in Objs, dir \in Dirs : \E path \in PathForms(dir) : Construct(i, path)

SpecPaths == InitPaths /\ [][NextPaths]_vars

\* --------------------------------------------------------------- server.py
MsgInitializing == "Search indices are still initializing. Please wait a moment and try again."

MsgWikiUnavailable == "Wikipedia search is not available. Index may be loading or disabled."

MsgLocalNotConfigured == "Local file search is not configured. Set LOCAL_DOCS_PATH environment variable."

MsgLocalNotReady == "Local file search is not ready. Index may be loading or empty."

MsgNoResults == "No results found. Try rephrasing your query or using different keywords."

TopKMax == 20

\* the outcome of _ensure_wiki_indexer() once WikiIndexer() is constructed:
\* the global is assigned before load_or_build runs, so it keeps the object
\* when load_or_build raises (r is what load_or_build did)
WikiAssigned(r) ==
    [wiki |-> r.self, store |-> r.store, pkl |-> r.pkl, raised |-> r.raised, attempted |-> TRUE]

\* variant: the indexer is constructed and loaded on every call
_ensure_wiki_indexer_Mut(w, store, pkl, env, ctor_ok, fail) ==
    IF env.SKIP_WIKIPEDIA
    THEN [wiki |-> w, store |-> store, pkl |-> pkl, raised |-> FALSE, attempted |-> FALSE]
    ELSE IF ~ctor_ok
    THEN [wiki |-> w, store |-> store, pkl |-> pkl, raised |-> TRUE, attempted |-> TRUE]
    ELSE WikiAssigned(load_or_build(NewWikiIndexer, store, pkl, fail))

\* _ensure_wiki_indexer(); ctor_ok = FALSE is WikiIndexer() raising;
\* .attempted: an indexer was constructed
_ensure_wiki_indexer(w, store, pkl, env, ctor_ok, fail) ==
    IF w # None \/ env.SKIP_WIKIPEDIA
    THEN [wiki |-> w, store |-> store, pkl |-> pkl, raised |-> FALSE, attempted |-> FALSE]
    ELSE IF ~ctor_ok
    THEN [wiki |-> w, store |-> store, pkl |-> pkl, raised |-> TRUE, attempted |-> TRUE]
    ELSE WikiAssigned(load_or_build(NewWikiIndexer, store, pkl, fail))

\* the outcome of _ensure_local_indexer() once build_index was called (b is
\* what it did): an exception is caught and leaves local_indexer = None
LocalAssigned(b, local_docs_path) ==
    [local |-> IF b.raised THEN None ELSE b.self,
     cached |-> local_docs_path, store |-> b.store, attempted |-> TRUE]

\* _ensure_local_indexer(); every exception of the constructor and of
\* build_index is caught and leaves local_indexer = None
_ensure_local_indexer(l, cached, store, env, ctor_ok, files, fail) ==
    IF l # None /\ cached = env.LOCAL_DOCS_PATH
    THEN [local |-> l, cached |-> cached, store |-> store, attempted |-> FALSE]
    ELSE IF env.LOCAL_DOCS_PATH = NoStr
    THEN [local |-> l, cached |-> env.LOCAL_DOCS_PATH, store |-> store, attempted |-> FALSE]
    ELSE IF ~ctor_ok
    THEN [local |-> None, cached |-> env.LOCAL_DOCS_PATH, store |-> store, attempted |-> TRUE]
    ELSE LocalAssigned(build_index(NewLocalFileIndexer("local", env.LOCAL_DOCS_PATH), store,
                                   [d \in {env.LOCAL_DOCS_PATH} |-> files], fail, 0),
                       env.LOCAL_DOCS_PATH)

\* inputs of the wiki initialisation: drawn only when it will run
WikiInits(w, env) ==
    IF w # None \/ env.SKIP_WIKIPEDIA
    THEN {[ctor_ok |-> TRUE, fail |-> "no"]}
    ELSE {[ctor_ok |-> FALSE, fail |-> "no"]} \cup [ctor_ok : {TRUE}, fail : WikiFailures]

\* inputs of the local initialisation: the files of the configured directory
LocalInits(l, cached, env) ==
    IF (l # None /\ cached = env.LOCAL_DOCS_PATH) \/ env.LOCAL_DOCS_PATH = NoStr
    THEN {[ctor_ok |-> TRUE, files |-> <<>>, fail |-> "no"]}
    ELSE {[ctor_ok |-> FALSE, files |-> <<>>, fail |-> "no"]}
         \cup [ctor_ok : {TRUE}, files : DirStates(env.LOCAL_DOCS_PATH), fail : BuildFailures]

Tag(docs, data_source) ==
    [j \in 1..Len(docs) |->
        [url |-> docs[j].url, text |-> docs[j].text, path |-> docs[j].path,
         source |-> docs[j].source, data_source |-> data_source]]

Tools == {"query_internal_knowledge_base", "search_offline_wikipedia",
          "search_internal_technical_documents"}

\* the source argument the tool passes on
ToolSource(tool, source) ==
    IF tool = "search_offline_wikipedia" THEN "wikipedia"
    ELSE IF tool = "search_internal_technical_documents" THEN "local"
    ELSE source

\* variant: the blocks do not look at the flag
StillInitializing_Mut(initialized) == FALSE

\* "if not _indexers_initialized: return ..." at the head of each block
StillInitializing(initialized) == ~initialized

ValidSource(source_in) ==
    IF source_in \in {"all", "wikipedia", "local"} THEN source_in ELSE "all"

\* _ensure_wiki_indexer() in the wiki block: its outcomes when the block
\* gets there, and nothing initialised when it does not
WikiEnsured(source) ==
    IF source \in {"all", "wikipedia"} /\ ~StillInitializing(_indexers_initialized)
    THEN {_ensure_wiki_indexer(wiki_indexer, chroma, wiki_pkl, environ, wi.ctor_ok, wi.fail) :
             wi \in WikiInits(wiki_indexer, environ)}
    ELSE {[wiki |-> wiki_indexer, store |-> chroma, pkl |-> wiki_pkl,
           raised |-> FALSE, attempted |-> FALSE]}

\* the wiki block of query_internal_knowledge_base, ew being the outcome of
\* _ensure_wiki_indexer(): not ready, raised, searched or unavailable
WikiBlock(source, ew) ==
    LET in_wiki == source \in {"all", "wikipedia"}
        ready   == ~StillInitializing(_indexers_initialized)
        usable  == ew.wiki # None /\ ew.wiki.bm25 # None
    IN  [wiki |-> ew.wiki, store |-> ew.store, pkl |-> ew.pkl,
         attempted |-> ew.attempted,
         raised    |-> ew.raised,
         not_ready |-> in_wiki /\ ~ready,
         wiki_ok   |-> in_wiki /\ ready /\ ~ew.raised /\ usable,
         wiki_unavailable |-> source = "wikipedia" /\ ready /\ ~ew.raised /\ ~usable]

\* the local block is reached unless the wiki block returned or raised
LocalReached(source, w) ==
    source \in {"all", "local"} /\ ~w.not_ready /\ ~w.raised /\ ~w.wiki_unavailable

\* _ensure_local_indexer() in the local block
LocalEnsured(source, w) ==
    IF LocalReached(source, w) /\ ~StillInitializing(_indexers_initialized)
    THEN {_ensure_local_indexer(local_indexer, _local_docs_path_cached, w.store, environ,
                                li.ctor_ok, li.files, li.fail) :
             li \in LocalInits(local_indexer, _local_docs_path_cached, environ)}
    ELSE {[local |-> local_indexer, cached |-> _local_docs_path_cached,
           store |-> w.store, attempted |-> FALSE]}

\* the initialisation part of query_internal_knowledge_base: w is the wiki
\* block, el the outcome of _ensure_local_indexer() in the local block
QueryInit(source, w, el) ==
    LET reached == LocalReached(source, w)
        ready   == ~StillInitializing(_indexers_initialized)
        usable  == el.local # None /\ el.local.documents # <<>>
    IN  [source |-> source,
         not_ready |-> w.not_ready \/ (reached /\ ~ready),
         raised |-> w.raised,
         wiki_ok |-> w.wiki_ok, wiki_unavailable |-> w.wiki_unavailable,
         local_ok |-> reached /\ ready /\ usable,
         local_unavailable |-> reached /\ ready /\ ~usable /\ source = "local",
         wiki |-> w.wiki, pkl |-> w.pkl, wiki_store |-> w.store,
         local |-> el.local, cached |-> el.cached, store |-> el.store,
         attempted |-> (IF w.attempted THEN {"wikipedia"} ELSE {})
                       \cup (IF el.attempted THEN {"local"} ELSE {})]

\* every way the initialisation part of a call can go from the current state
QueryInits(source) ==
    UNION {{QueryInit(source, w, el) : el \in LocalEnsured(source, w)} :
           w \in {WikiBlock(source, ew) : ew \in WikiEnsured(source)}}

\* orderings and store behaviour of one hybrid_search of the query
SearchInputs(self, store, used) ==
    IF used
    THEN [lex : LexOrders(self), vec : VecOrders(self, store), backend_ok : BOOLEAN]
    ELSE {[lex |-> <<>>, vec |-> <<>>, backend_ok |-> TRUE]}

\* top_k = min(max(1, top_k), 20)
ClampTopK(top_k_in) == Min(Max(1, top_k_in), TopKMax)

\* an unknown strategy is replaced by "hybrid"
ValidStrategy(strategy_in) == IF strategy_in \in Strategies THEN strategy_in ELSE "hybrid"

\* variant: the local results are put in front of the Wikipedia results
Collect_Mut(wiki_results, local_results) ==
    Tag(local_results, "Local Files") \o Tag(wiki_results, "Wikipedia")

\* all_results after the two blocks: each block sets data_source on the
\* results of its hybrid_search and extends all_results with them
Collect(wiki_results, local_results) ==
    Tag(wiki_results, "Wikipedia") \o Tag(local_results, "Local Files")

\* what the call returns (or raises) once the blocks have run; wiki_results
\* and local_results are what the hybrid_search calls returned
Answer(q, top_k, strategy, wiki_results, local_results) ==
    LET base == [op |-> "query", source |-> q.source, top_k |-> top_k, strategy |-> strategy,
                 ready |-> _indexers_initialized,
                 attempted |-> q.attempted,
                 searched |-> (IF q.wiki_ok
                               THEN {[corpus |-> "wikipedia", last_build |-> q.wiki.last_build]}
                               ELSE {})
                              \cup (IF q.local_ok
                                    THEN {[corpus |-> "local", last_build |-> q.local.last_build]}
                                    ELSE {}),
                 wiki_results |-> wiki_results, local_results |-> local_results,
                 outcome |-> "message", text |-> NoStr, docs |-> <<>>]
    IN  IF q.raised THEN [base EXCEPT !.outcome = "exception"]
        ELSE IF q.not_ready THEN [base EXCEPT !.text = MsgInitializing]
        ELSE IF q.wiki_unavailable THEN [base EXCEPT !.text = MsgWikiUnavailable]
        ELSE IF q.local_unavailable
        THEN [base EXCEPT !.text = IF environ.LOCAL_DOCS_PATH = NoStr
                                   THEN MsgLocalNotConfigured ELSE MsgLocalNotReady]
        ELSE IF Collect(wiki_results, local_results) = <<>> THEN [base EXCEPT !.text = MsgNoResults]
        ELSE [base EXCEPT !.outcome = "results", !.docs = Collect(wiki_results, local_results)]

\* the reply of query_internal_knowledge_base after the initialisation q:
\* one hybrid_search per usable corpus with the clamped top_k and the
\* validated strategy
QueryReply(q, top_k_in, strategy_in, worder, lorder) ==
    Answer(q, ClampTopK(top_k_in), ValidStrategy(strategy_in),
           IF q.wiki_ok
           THEN hybrid_search(q.wiki, q.wiki_store, worder.lex, worder.vec,
                              worder.backend_ok, ClampTopK(top_k_in),
                              ValidStrategy(strategy_in)).results
           ELSE <<>>,
           IF q.local_ok
           THEN hybrid_search(q.local, q.store, lorder.lex, lorder.vec,
                              lorder.backend_ok, ClampTopK(top_k_in),
                              ValidStrategy(strategy_in)).results
           ELSE <<>>)

\* ------------------------------------------------ specification: the server
TopKInputs == {0, TopKMax + 5}

StrategyInputs == Strategies \cup {"fuzzy"}

SourceInputs == {"all", "wikipedia", "local", "web"}

\* the tool calls a client can make: the two narrow tools fix the source
ToolCalls ==
    [tool : {"query_internal_knowledge_base"}, source : SourceInputs]
    \cup {[tool |-> "search_offline_wikipedia", source |-> "wikipedia"],
          [tool |-> "search_internal_technical_documents", source |-> "local"]}

\* what a previous run left on disk: nothing, the pickled index with its
\* vector collection, or the pickled index alone
SavedWiki ==
    [bm25 |-> [corpus |-> [i \in 1..Len(WikiRows) |-> WikiRows[i].text]],
     documents |-> WikiDocuments(WikiRows)]

SavedCollection ==
    [owner |-> "wiki",
     entries |-> {WikiEntry(WikiDocuments(WikiRows)[i]) : i \in 1..Len(WikiRows)}]

InitServer ==
    /\ \E saved \in {"nothing", "index", "lexical only"} :
          /\ wiki_pkl = IF saved = "nothing" THEN None ELSE SavedWiki
          /\ chroma = [n \in CollectionNames |->
                          IF n = "wikipedia" /\ saved = "index" THEN SavedCollection ELSE None]
    /\ environ \in [LOCAL_DOCS_PATH : {NoStr} \cup Dirs, SKIP_WIKIPEDIA : BOOLEAN]
    /\ wiki_indexer = None
    /\ local_indexer = None
    /\ _local_docs_path_cached = NoStr
    /\ _indexers_initialized = FALSE
    /\ bg_pc = "not_started"
    /\ reply = NoReply
    /\ indexers = <<>>
    /\ call = NoCall

\* _startup_initialization(): start the background task or thread
Startup ==
    /\ reply = NoReply
    /\ bg_pc = "not_started"
    /\ bg_pc' = "wiki"
    /\ UNCHANGED <<chroma, libVars, wiki_pkl, environ, wiki_indexer, local_indexer,
                   _local_docs_path_cached, _indexers_initialized, reply>>

\* python -m src (src/__main__.py): the module takes wiki_indexer from
\* src.server, where it is still None, and calls wiki_indexer.load_or_build();
\* the AttributeError ends the process before _startup_initialization() or
\* mcp.run() is reached
ModuleMain ==
    /\ reply = NoReply
    /\ bg_pc = "not_started"
    /\ wiki_indexer = None
    /\ bg_pc' = "exited"
    /\ UNCHANGED <<chroma, libVars, wiki_pkl, environ, wiki_indexer, local_indexer,
                   _local_docs_path_cached, _indexers_initialized, reply>>

\* background initialisation, first step: _ensure_wiki_indexer(); an
\* exception ends the initialisation and sets the flag in the handler
BgEnsureWiki ==
    /\ reply = NoReply
    /\ bg_pc = "wiki"
    /\ \E ew \in {_ensure_wiki_indexer(wiki_indexer, chroma, wiki_pkl, environ,
                                        wi.ctor_ok, wi.fail) :
                       wi \in WikiInits(wiki_indexer, environ)} :
              /\ wiki_indexer' = ew.wiki
              /\ chroma' = ew.store
              /\ wiki_pkl' = ew.pkl
              /\ _indexers_initialized' = ew.raised
              /\ bg_pc' = IF ew.raised THEN "done" ELSE "local"
    /\ UNCHANGED <<libVars, environ, local_indexer, _local_docs_path_cached, reply>>

\* background initialisation, second step: _ensure_local_indexer(), then
\* _indexers_initialized = True
BgEnsureLocal ==
    /\ reply = NoReply
    /\ bg_pc = "local"
    /\ \E el \in {_ensure_local_indexer(local_indexer, _local_docs_path_cached, chroma,
                                         environ, li.ctor_ok, li.files, li.fail) :
                       li \in LocalInits(local_indexer, _local_docs_path_cached, environ)} :
              /\ local_indexer' = el.local
              /\ _local_docs_path_cached' = el.cached
              /\ chroma' = el.store
    /\ _indexers_initialized' = TRUE
    /\ bg_pc' = "done"
    /\ UNCHANGED <<libVars, wiki_pkl, environ, wiki_indexer, reply>>

\* LOCAL_DOCS_PATH is changed in the environment of the process
SetLocalDocsPath(path) ==
    /\ reply = NoReply
    /\ bg_pc # "exited"
    /\ environ.LOCAL_DOCS_PATH # path
    /\ environ' = [environ EXCEPT !.LOCAL_DOCS_PATH = path]
    /\ UNCHANGED <<chroma, libVars, wiki_pkl, wiki_indexer, local_indexer,
                   _local_docs_path_cached, _indexers_initialized, bg_pc, reply>>

\* the runs of one tool call from the current state: one per value of
\* top_k and strategy, per outcome of the initialisations the call performs
\* and per ranking of the searches it makes
QueryRuns(tool, source_in) ==
    UNION {{[q |-> q,
             reply |-> [QueryReply(q, a[1], a[2], o[1], o[2]) EXCEPT !.op = tool]] :
               a \in TopKInputs \X StrategyInputs,
               o \in SearchInputs(q.wiki, q.wiki_store, q.wiki_ok)
                     \X SearchInputs(q.local, q.store, q.local_ok)} :
           q \in QueryInits(ValidSource(ToolSource(tool, source_in)))}

\* one call of a query tool; the tools are served by mcp.run(), which the
\* entry code reaches after _startup_initialization()
Query(tool, source_in) ==
    /\ reply = NoReply
    /\ bg_pc \notin {"not_started", "exited"}
    /\ \E run \in QueryRuns(tool, source_in) :
          /\ reply' = run.reply
          /\ wiki_indexer' = run.q.wiki
          /\ wiki_pkl' = run.q.pkl
          /\ local_indexer' = run.q.local
          /\ _local_docs_path_cached' = run.q.cached
          /\ chroma' = run.q.store
    /\ UNCHANGED <<libVars, environ, _indexers_initialized, bg_pc>>

\* the tool call returns to the client
ReturnReply ==
    /\ reply # NoReply
    /\ reply' = NoReply
    /\ UNCHANGED <<chroma, libVars, wiki_pkl, environ, wiki_indexer, local_indexer,
                   _local_docs_path_cached, _indexers_initialized, bg_pc>>

NextServer ==
    \/ Startup
    \/ ModuleMain
    \/ BgEnsureWiki
    \/ BgEnsureLocal
    \/ \E path \in {NoStr} \cup Dirs : SetLocalDocsPath(path)
    \/ \E c \in ToolCalls : Query(c.tool, c.source)
    \/ ReturnReply

SpecServer == InitServer /\ [][NextServer]_vars

\* ------------------------------- specification: the server while it starts
\* a tool call that arrives before the flag is set
QueryStarting(tool, source_in) ==
    /\ ~_indexers_initialized
    /\ Query(tool, source_in)

\* The server from its start until the flag is set (no statement of
\* server.py assigns False to it afterwards), under its scheduling: the
\* program is started on one of its entry paths, the background task or
\* daemon thread gets to run each of its steps although tool calls keep
\* arriving, and every tool call returns.
NextStartup ==
    \/ Startup
    \/ ModuleMain
    \/ BgEnsureWiki
    \/ BgEnsureLocal
    \/ \E c \in ToolCalls : QueryStarting(c.tool, c.source)
    \/ ReturnReply

\* a step of the background initialisation (BgEnsureWiki or BgEnsureLocal)
BgStep ==
    /\ reply = NoReply
    /\ bg_pc \in {"wiki", "local"}
    /\ bg_pc' \in {"local", "done"} \ {bg_pc}

SpecStartup ==
    /\ InitServer
    /\ [][NextStartup]_vars
    /\ WF_vars(Startup \/ ModuleMain)
    /\ SF_bg_pc(BgStep)
    /\ WF_vars(ReturnReply)

\* ----------------------------------------------------------------- claims
Searched == call.op = "hybrid_search"

\* positions (rank + 1) at which a list carries the identifier
RanksOf(list, url) == {i \in 1..Len(list) : list[i].url = url}

UrlsOf(list) == {list[i].url : i \in 1..Len(list)}

RECURSIVE SumReciprocals(_)
SumReciprocals(positions) ==
    IF positions = {} THEN 0
    ELSE LET i == CHOOSE p \in positions : TRUE
         IN  RRF_Scale \div (60 + (i - 1) + 1) + SumReciprocals(positions \ {i})

\* C1: the fused score of every identifier is the sum of 1/(60 + r + 1) over
\* every result carrying it at 0-based rank r in the lexical and in the
\* vector list, and only identifiers of those lists have a score.
C1_FusedScore ==
    Searched =>
        /\ DOMAIN call.rrf_scores = UrlsOf(call.bm25_results) \cup UrlsOf(call.vector_results)
        /\ \A url \in DOMAIN call.rrf_scores :
              call.rrf_scores[url] = SumReciprocals(RanksOf(call.bm25_results, url))
                                     + SumReciprocals(RanksOf(call.vector_results, url))

\* an identifier scored from the lexical list and from two vector results
C1_Witness ==
    /\ Searched
    /\ \E url \in DOMAIN call.rrf_scores :
          /\ Cardinality(RanksOf(call.bm25_results, url)) = 1
          /\ Cardinality(RanksOf(call.vector_results, url)) = 2

\* first position of the identifier in the lexical list followed by the vector list
FirstSeen(url) ==
    LET both == call.bm25_results \o call.vector_results
    IN  CHOOSE i \in RanksOf(both, url) : \A k \in RanksOf(both, url) : i <= k

\* u is ranked before v: higher score, or equal score and inserted first
RankedBefore(u, v) ==
    \/ call.rrf_scores[u] > call.rrf_scores[v]
    \/ call.rrf_scores[u] = call.rrf_scores[v] /\ FirstSeen(u) < FirstSeen(v)

\* C2: the results are the top_k identifiers by non-increasing fused score,
\* equal scores in first-insertion order (lexical entries, then vector-only).
C2_Ordering ==
    Searched =>
        LET out == call.results
            n   == Len(out)
        IN  /\ n = Min(call.top_k, Cardinality(DOMAIN call.rrf_scores))
            /\ \A j \in 1..n : out[j].url \in DOMAIN call.rrf_scores
            /\ \A j, k \in 1..n : j < k => RankedBefore(out[j].url, out[k].url)
            /\ \A j \in 1..n : \A v \in DOMAIN call.rrf_scores \ UrlsOf(out) :
                  RankedBefore(out[j].url, v)

\* the identifiers of a ranked list
UrlSeq(list) == [i \in 1..Len(list) |-> list[i].url]

\* the example of the specification: lexical [A, B, C], vector [B, A]
C2_Witness ==
    /\ Searched
    /\ UrlSeq(call.bm25_results)
          = <<"file://docs/A.md", "file://docs/B.md", "file://docs/C.md">>
    /\ UrlSeq(call.vector_results) = <<"file://docs/B.md", "file://docs/A.md">>
    /\ call.rrf_scores["file://docs/A.md"] = call.rrf_scores["file://docs/B.md"]
    /\ UrlSeq(call.results)
          = <<"file://docs/A.md", "file://docs/B.md", "file://docs/C.md">>

\* C3: a result is tagged "both" exactly when its identifier is in the
\* lexical and in the vector list, and else with the one list that has it.
C3_Provenance ==
    Searched =>
        \A j \in 1..Len(call.results) :
            LET url   == call.results[j].url
                inLex == url \in UrlsOf(call.bm25_results)
                inVec == url \in UrlsOf(call.vector_results)
            IN  call.results[j].source =
                    IF inLex /\ inVec THEN "both" ELSE IF inLex THEN "bm25" ELSE "vector"

\* the entries indexer i can reach through its collection handle
Searchable(i) == LiveEntries(chroma, indexers[i].collection)

\* C4: indexers of distinct directories do not touch each other's vector
\* data: what a completed build stored stays searchable whatever the other
\* directory's indexer builds.
C4_Isolation ==
    \A i \in Inst :
        indexers[i].last_build = "ok" =>
            Searchable(i) = Range(CleanedEntries(indexers[i].documents))

\* C5: lexical index, document list and vector collection of an indexer
\* all derive from its latest ingestion pass.
C5_SamePass ==
    \A i \in Inst :
        indexers[i].last_build # "never" =>
            LET pass == indexers[i].last_pass
            IN  /\ indexers[i].documents = pass
                /\ IF indexers[i].bm25 = None THEN pass = <<>>
                   ELSE indexers[i].bm25.corpus = [k \in 1..Len(pass) |-> pass[k].text]
                /\ Searchable(i) \subseteq Range(CleanedEntries(pass))

\* C6: after a build that found no documents every search returns [].
C6_EmptyCorpus ==
    (Searched /\ call.last_build = "empty") =>
        /\ call.bm25_results = <<>>
        /\ call.vector_results = <<>>
        /\ call.results = <<>>

\* a tool call has been handled and its reply is on the way to the client
Replied == reply # NoReply

\* C7: a build that raised leaves nothing a later query can reach: no
\* query searches an indexer whose build call raised.
C7_AtomicBuild ==
    Replied => \A s \in reply.searched : s.last_build # "raised"

\* C8: while _indexers_initialized is false every tool call returns the
\* "still initializing" message, constructs no indexer and runs no search.
C8_NotReady ==
    (Replied /\ ~reply.ready) =>
        /\ reply.outcome = "message"
        /\ reply.text = MsgInitializing
        /\ reply.attempted = {}
        /\ reply.searched = {}

\* a tool call answered while the background initialisation is between
\* its Wikipedia step and its local step
C8_Witness ==
    /\ Replied
    /\ ~reply.ready
    /\ bg_pc = "local"
    /\ wiki_indexer # None

\* a tool call is handled in this step
Handled == reply = NoReply /\ reply' # NoReply

NeedsWiki == wiki_indexer = None /\ ~environ.SKIP_WIKIPEDIA

NeedsLocal ==
    /\ environ.LOCAL_DOCS_PATH # NoStr
    /\ local_indexer = None \/ _local_docs_path_cached # environ.LOCAL_DOCS_PATH

C10_NoException ==
    Replied => reply.outcome # "exception"

\* the indexer the recorded hybrid_search call was made on
Callee == indexers[call.inst]

\* the store query of the recorded call raised: the call reached
\* collection.query and the store failed or the handle was stale
VectorQueryRaised ==
    /\ Searched
    /\ call.strategy \in {"semantic", "hybrid"}
    /\ Callee.collection # None
    /\ ~call.backend_ok \/ ~HandleLive(chroma, Callee.collection)

\* a ranked list as hybrid_search returns it when only the list named tag
\* contributed
Tagged(list, tag) ==
    [j \in 1..Len(list) |->
        [url |-> list[j].url, text |-> list[j].text, path |-> list[j].path, source |-> tag]]

\* C11: when the store query raises, vector_search yields no results and
\* hybrid_search with strategy "hybrid" returns the lexical results in
\* their order, each tagged "bm25".
C11_VectorFailure ==
    (VectorQueryRaised /\ call.strategy = "hybrid") =>
        /\ call.vector_results = <<>>
        /\ call.results = Tagged(call.bm25_results, "bm25")

\* a hybrid call whose store query raised and that returned two lexical results
C11_Witness ==
    /\ VectorQueryRaised
    /\ call.strategy = "hybrid"
    /\ ~call.backend_ok
    /\ HandleLive(chroma, Callee.collection)
    /\ Len(call.results) = 2

\* the scores of the recorded call come from the one list alone
ScoredFrom(list) ==
    /\ DOMAIN call.rrf_scores = UrlsOf(list)
    /\ \A url \in UrlsOf(list) : call.rrf_scores[url] = SumReciprocals(RanksOf(list, url))
    /\ UrlsOf(call.results) \subseteq UrlsOf(list)
    /\ Len(call.results) = Min(call.top_k, Cardinality(UrlsOf(list)))

\* C12: a search on a missing lexical index or a missing vector collection
\* returns [], so hybrid_search fuses the other list alone, and returns []
\* when both are missing.
C12_Unbuilt ==
    Searched =>
        /\ Callee.bm25 = None =>
              /\ call.bm25_results = <<>>
              /\ ScoredFrom(call.vector_results)
        /\ Callee.collection = None =>
              /\ call.vector_results = <<>>
              /\ call.results = Tagged(call.bm25_results, "bm25")
        /\ (Callee.bm25 = None /\ Callee.collection = None) => call.results = <<>>

\* a hybrid call on an indexer without lexical index that kept documents
\* and a filled collection
C12_Witness ==
    /\ Searched
    /\ call.strategy = "hybrid"
    /\ Callee.bm25 = None
    /\ Callee.documents # <<>>
    /\ call.vector_results # <<>>
    /\ call.results # <<>>

\* C13: "keyword" consults the lexical index only, "semantic" the vector
\* index only, "hybrid" both; the list left out gives no score, no result
\* and no provenance tag.
C13_Strategy ==
    Searched =>
        /\ call.strategy = "keyword" =>
              /\ call.vector_results = <<>>
              /\ DOMAIN call.rrf_scores = UrlsOf(call.bm25_results)
              /\ \A j \in 1..Len(call.results) : call.results[j].source = "bm25"
        /\ call.strategy = "semantic" =>
              /\ call.bm25_results = <<>>
              /\ DOMAIN call.rrf_scores = UrlsOf(call.vector_results)
              /\ \A j \in 1..Len(call.results) : call.results[j].source = "vector"
        /\ call.strategy = "hybrid" =>
              DOMAIN call.rrf_scores
                  = UrlsOf(call.bm25_results) \cup UrlsOf(call.vector_results)

\* the identifiers of the Wikipedia corpus
WikiUrls == {WikiRows[i].url : i \in 1..Len(WikiRows)}

\* a result of hybrid_search with the corpus tag the server adds
WithCorpus(doc, data_source) ==
    [url |-> doc.url, text |-> doc.text, path |-> doc.path, source |-> doc.source,
     data_source |-> data_source]

\* C14: a call with source "all" that returns results searched each usable
\* corpus with the clamped top_k and the validated strategy and returns the
\* Wikipedia results, then the local results, each list as hybrid_search
\* returned it, every result tagged with its corpus.
C14_AllSources ==
    (Replied /\ reply.source = "all" /\ reply.outcome = "results") =>
        LET w == reply.wiki_results
            l == reply.local_results
        IN  /\ reply.top_k \in 1..TopKMax
            /\ reply.strategy \in Strategies
            /\ Len(w) <= reply.top_k
            /\ Len(l) <= reply.top_k
            /\ Len(reply.docs) = Len(w) + Len(l)
            /\ \A j \in 1..Len(w) : reply.docs[j] = WithCorpus(w[j], "Wikipedia")
            /\ \A j \in 1..Len(l) : reply.docs[Len(w) + j] = WithCorpus(l[j], "Local Files")
            /\ \A j \in 1..Len(reply.docs) :
                  reply.docs[j].data_source = "Wikipedia" <=> reply.docs[j].url \in WikiUrls
            /\ w # <<>> => \E s \in reply.searched : s.corpus = "wikipedia"
            /\ l # <<>> => \E s \in reply.searched : s.corpus = "local"

\* both corpora returned results and together more than top_k of them
C14_Witness ==
    /\ Replied
    /\ reply.source = "all"
    /\ reply.outcome = "results"
    /\ reply.wiki_results # <<>>
    /\ reply.local_results # <<>>
    /\ Len(reply.docs) > reply.top_k

\* the condition under which a block of the tool does not search its corpus
WikiUnavailable == wiki_indexer = None \/ wiki_indexer.bm25 = None

LocalUnavailable == local_indexer = None \/ local_indexer.documents = <<>>

\* the reply of a call whose corpus was searched
SearchedReply(results) ==
    \/ reply.outcome = "results" /\ results # <<>>
    \/ reply.outcome = "message" /\ reply.text = MsgNoResults /\ results = <<>>

\* C15: once initialised, a call for one source whose index is unavailable
\* returns the message of that source ("not available" for Wikipedia, "not
\* configured" for the local corpus without LOCAL_DOCS_PATH and "not
\* ready" with it) and not "No results found"; a call whose source is
\* available returns its results, or "No results found" when there are none.
C15_Messages ==
    (Replied /\ reply.ready) =>
        /\ reply.source = "wikipedia" =>
              IF WikiUnavailable
              THEN reply.outcome = "message" /\ reply.text = MsgWikiUnavailable
              ELSE SearchedReply(reply.wiki_results)
        /\ reply.source = "local" =>
              IF LocalUnavailable
              THEN /\ reply.outcome = "message"
                   /\ reply.text = IF environ.LOCAL_DOCS_PATH = NoStr
                                   THEN MsgLocalNotConfigured ELSE MsgLocalNotReady
              ELSE SearchedReply(reply.local_results)

\* a build_index call has just returned without raising
Built == call.op = "build_index" /\ ~call.raised

\* the files of the scanned directory that hold more than whitespace
LoadableFiles ==
    {f \in DOMAIN call.files : call.files[f] # NoFile /\ Strip(call.files[f]) # NoStr}

IdsOf(entries) == {e.id : e \in entries}

\* C16: a build rebuilds the lexical index over the current files and
\* upserts the vector entries by chunk identifier; the existing collection
\* is not deleted, so every identifier stored before the build is still
\* stored after it.
C16_IncrementalVector ==
    (Built /\ LoadableFiles # {}) =>
        /\ Callee.bm25 # None
        /\ Len(Callee.bm25.corpus) = Cardinality(LoadableFiles)
        /\ IdsOf(call.before_entries) \subseteq IdsOf(Searchable(call.inst))

\* the chunk texts the files of the scanned directory are split into
CurrentChunkTexts == UNION {Range(SplitText(call.files[f])) : f \in LoadableFiles}

\* C17: after a build over a directory with at least one non-empty file the
\* document list has exactly one entry per loadable non-empty file, with
\* its current text; the lexical index covers those documents; the vector
\* collection holds only chunks of those files.
C17_Rebuild ==
    (Built /\ LoadableFiles # {}) =>
        LET docs == Callee.documents
            dir  == Callee.directory_path
        IN  /\ Len(docs) = Cardinality(LoadableFiles)
            /\ \A f \in LoadableFiles :
                  \E k \in 1..Len(docs) :
                      /\ docs[k].path = PathOf(dir, f)
                      /\ docs[k].text = call.files[f]
            /\ Callee.bm25 # None
            /\ Callee.bm25.corpus = [k \in 1..Len(docs) |-> docs[k].text]
            /\ \A e \in Searchable(call.inst) :
                  /\ e.document \in CurrentChunkTexts
                  /\ \E f \in LoadableFiles :
                        /\ e.url = "file://" \o PathOf(dir, f)
                        /\ e.document \in Range(SplitText(call.files[f]))

\* a rebuild after one file was replaced and another was added: the old
\* chunks were stored before the call, the new ones are stored after it
C17_Witness ==
    /\ Built
    /\ call.inst = 1
    /\ UrlSeq(call.before_documents) = <<"file://d0/a.md">>
    /\ call.before_documents[1].text = "apples"
    /\ call.before_entries # {}
    /\ call.files = [f \in {"a.md", "b.md"} |-> IF f = "a.md" THEN "bananas" ELSE "apples"]
    /\ {e.document : e \in Searchable(1)} = {"bananas.1", "apples.1", "apples.2"}

\* two spellings of one directory
SameDirectory(p, q) == \E dir \in Dirs : {p, q} \subseteq PathForms(dir)

\* C18: indexers constructed with a path, with the path plus a trailing
\* separator or with its absolute form, or twice with the same path, have
\* the same collection identifier.
C18_PathNormalization ==
    \A i, j \in Objs :
        (/\ indexers[i] # None
         /\ indexers[j] # None
         /\ SameDirectory(indexers[i].directory_path, indexers[j].directory_path)) =>
            indexers[i].collection_name = indexers[j].collection_name

\* the three spellings of d1, one indexer each
C18_Witness ==
    /\ \A i \in Objs : indexers[i] # None
    /\ {indexers[i].directory_path : i \in Objs} = PathForms("d1")

\* a clean_chunks call has just returned
Cleaned == call.op = "clean_chunks"

\* C19: clean_chunks on the output of a clean_chunks call (same
\* detect_boilerplate) returns that list unchanged and excludes nothing.
C19_Idempotent ==
    (Cleaned /\ call.pass = 2) =>
        /\ call.result.cleaned = call.chunks
        /\ call.result.too_small_removed = 0
        /\ call.result.exact_duplicates_removed = 0
        /\ call.result.near_duplicates_removed = 0
        /\ call.result.boilerplate_removed = 0

\* the second pass over what is left of a too small chunk, a chunk of
\* boilerplate and a chunk that shares a line with it
C19_Witness ==
    /\ Cleaned
    /\ call.pass = 2
    /\ call.detect_boilerplate
    /\ [k \in 1..Len(call.previous) |-> call.previous[k].page_content]
          = <<"note.1", "legal", "page">>
    /\ Len(call.chunks) = 1
    /\ call.chunks[1].page_content = "page"

\* the first rule of the fixed order that excludes the chunk, given the
\* cleaner state st reached before it ("none" when no rule does)
RuleOf(st, chunk, detect_boilerplate) ==
    LET content  == Strip(chunk.page_content)
        accepted == [k \in 1..Len(st.cleaned) |-> Strip(st.cleaned[k].page_content)]
    IN  IF content = NoStr THEN "too_small"
        ELSE IF TextLen(content) < 100 THEN "too_small"
        ELSE IF \E k \in 1..Len(accepted) : accepted[k] = content THEN "exact"
        ELSE IF \E k \in 1..Len(accepted) :
                   /\ k > Len(accepted) - 100
                   /\ Similarity(content, accepted[k]) >= 9500
        THEN "near"
        ELSE IF detect_boilerplate /\ _is_boilerplate(content, st.boilerplate_patterns)
        THEN "boilerplate"
        ELSE "none"

Bump(rule, name) == IF rule = name THEN 1 ELSE 0

\* C20: each chunk is tested against empty, too small, exact duplicate,
\* near duplicate and boilerplate in that order; the first rule that
\* matches excludes it and increments only its own counter; a chunk no rule
\* matches is appended to the output and its hash and content are recorded.
C20_RuleOrder ==
    Cleaned =>
        \A k \in 1..Len(call.chunks) :
            LET st   == call.steps[k]
                nx   == call.steps[k + 1]
                rule == RuleOf(st, call.chunks[k], call.detect_boilerplate)
                content == Strip(call.chunks[k].page_content)
            IN  /\ nx.too_small_removed = st.too_small_removed + Bump(rule, "too_small")
                /\ nx.exact_duplicates_removed
                      = st.exact_duplicates_removed + Bump(rule, "exact")
                /\ nx.near_duplicates_removed
                      = st.near_duplicates_removed + Bump(rule, "near")
                /\ nx.boilerplate_removed = st.boilerplate_removed + Bump(rule, "boilerplate")
                /\ IF rule = "none"
                   THEN /\ nx.cleaned = Append(st.cleaned, call.chunks[k])
                        /\ nx.seen_hashes = st.seen_hashes \cup {_hash_content(content)}
                        /\ nx.seen_contents = Append(st.seen_contents, content)
                   ELSE /\ nx.cleaned = st.cleaned
                        /\ nx.seen_hashes = st.seen_hashes
                        /\ nx.seen_contents = st.seen_contents

\* a chunk that is a near duplicate and boilerplate is counted as a near
\* duplicate, a repeated chunk as an exact duplicate
C20_Witness ==
    /\ Cleaned
    /\ call.pass = 1
    /\ call.detect_boilerplate
    /\ [k \in 1..Len(call.chunks) |-> call.chunks[k].page_content]
          = <<"terms", "terms~", "terms">>
    /\ _is_boilerplate("terms~", call.result.boilerplate_patterns)
    /\ call.result.near_duplicates_removed = 1
    /\ call.result.exact_duplicates_removed = 1
    /\ call.result.boilerplate_removed = 0
    /\ Len(call.result.cleaned) = 1

\* the trimmed contents accepted before position k of the call's input
AcceptedBefore(k) == call.steps[k].seen_contents

\* position k of the input passes the empty, size and exact-duplicate rules
ReachesNearTest(k) ==
    LET content == Strip(call.chunks[k].page_content)
    IN  /\ content # NoStr
        /\ TextLen(content) >= 100
        /\ \A j \in 1..Len(AcceptedBefore(k)) : AcceptedBefore(k)[j] # content

\* C21: a chunk that reaches the near-duplicate test is excluded as a near
\* duplicate exactly when its similarity to one of the 100 most recently
\* accepted chunks is at least 0.95 (0.95 itself included, 0.9499 not);
\* chunks accepted before the most recent 100 are not compared.
C21_NearDuplicate ==
    Cleaned =>
        \A k \in 1..Len(call.chunks) :
            ReachesNearTest(k) =>
                LET content  == Strip(call.chunks[k].page_content)
                    accepted == AcceptedBefore(k)
                IN  (call.steps[k + 1].near_duplicates_removed
                        = call.steps[k].near_duplicates_removed + 1)
                    <=> \E j \in 1..Len(accepted) :
                            /\ j > Len(accepted) - 100
                            /\ Similarity(content, accepted[j]) >= 9500

\* a chunk at similarity 0.95 to a chunk accepted 101 chunks earlier is kept
C21_Witness ==
    /\ Cleaned
    /\ call.pass = 1
    /\ Len(call.chunks) = 102
    /\ call.chunks[1].page_content = "report"
    /\ call.chunks[102].page_content = "report~"
    /\ Len(AcceptedBefore(102)) = 101
    /\ Similarity("report~", AcceptedBefore(102)[1]) = 9500
    /\ call.result.near_duplicates_removed = 0
    /\ Len(call.result.cleaned) = 102

\* C22: a chunk whose trimmed content has exactly 100 characters is not
\* excluded as too small; a chunk whose trimmed content has 99 characters
\* or fewer (the empty content included) is excluded and counted as too
\* small.
C22_MinChunkSize ==
    Cleaned =>
        \A k \in 1..Len(call.chunks) :
            LET trimmed == Strip(call.chunks[k].page_content)
                st      == call.steps[k]
                nx      == call.steps[k + 1]
            IN  /\ TextLen(trimmed) >= 100 =>
                      nx.too_small_removed = st.too_small_removed
                /\ TextLen(trimmed) <= 99 =>
                      /\ nx.too_small_removed = st.too_small_removed + 1
                      /\ nx.cleaned = st.cleaned

\* a chunk of 100 characters is kept, chunks of 99 and of 0 characters after
\* trimming are counted as too small
C22_Witness ==
    /\ Cleaned
    /\ call.pass = 1
    /\ [k \in 1..Len(call.chunks) |-> call.chunks[k].page_content] = <<"c100", " c99 ", " ">>
    /\ [k \in 1..Len(call.chunks) |-> TextLen(Strip(call.chunks[k].page_content))]
          = <<100, 99, 0>>
    /\ call.result.too_small_removed = 2
    /\ call.result.cleaned = <<call.chunks[1]>>

\* the (file, ordinal) pairs of the chunks the splitter makes of the scanned
\* files, ordinals counted from 0 within each file before cleaning
ChunkPairs ==
    {<<f, n>> \in LoadableFiles \X (0..MaxChunks) : n < Len(SplitText(call.files[f]))}

\* the identifier of the chunk with ordinal n of file f of indexer i
IdOfPair(i, f, n) ==
    "file://" \o indexers[i].directory_path \o "/" \o f \o "#chunk" \o ToString(n)

\* C23: the identifier of a stored chunk is determined by its parent
\* document and its ordinal among that document's chunks before cleaning
\* (so it is the same on every build over the same files and does not
\* depend on which other chunks cleaning removed); chunks with different
\* (parent, ordinal) pairs have different identifiers.
C23_ChunkIds ==
    (Built /\ LoadableFiles # {}) =>
        /\ \A e \in LiveEntries(chroma, indexers[call.inst].collection) :
              \E p \in ChunkPairs :
                  /\ e.id = IdOfPair(call.inst, p[1], p[2])
                  /\ e.document = SplitText(call.files[p[1]])[p[2] + 1]
        /\ \A p, q \in ChunkPairs :
              IdOfPair(call.inst, p[1], p[2]) = IdOfPair(call.inst, q[1], q[2]) => p = q
        /\ \A p \in ChunkPairs :
              ChunkId(ChunksOf([url  |-> "file://" \o PathOf(indexers[call.inst].directory_path,
                                                              p[1]),
                                text |-> call.files[p[1]]])[p[2] + 1])
                  = IdOfPair(call.inst, p[1], p[2])

\* the first chunk of a file is removed as too small and the second chunk,
\* the only one stored, keeps ordinal 1
C23_Witness ==
    /\ Built
    /\ call.files["a.md"] = "memo"
    /\ call.files["b.md"] = NoFile
    /\ LiveEntries(chroma, indexers[call.inst].collection)
          = {[id |-> "file://d0/a.md#chunk1", document |-> "memo.2", url |-> "file://d0/a.md"]}

\* the largest top_k the tool's description allows
DocumentedMax(tool) == IF tool = "search_offline_wikipedia" THEN 10 ELSE 20

\* C24: every query tool clamps top_k to its documented range (at least 1,
\* at most 20, at most 10 for search_offline_wikipedia), so no corpus
\* contributes more results to a reply than the tool's documented maximum.
C24_TopKClamp ==
    Replied =>
        /\ reply.top_k >= 1
        /\ reply.top_k <= DocumentedMax(reply.op)
        /\ Len(reply.wiki_results) <= DocumentedMax(reply.op)
        /\ Len(reply.local_results) <= DocumentedMax(reply.op)

\* a call of _estimate_pca_variance has just returned
Estimated == call.op = "_estimate_pca_variance"

\* the coefficient of variation of two sizes, |a - b| / (a + b), lies in
\* 0.4 .. 0.5
ModerateCV(sizes) ==
    /\ Len(sizes) = 2
    /\ sizes[1] + sizes[2] > 0
    /\ LET diff == IF sizes[1] < sizes[2] THEN sizes[2] - sizes[1] ELSE sizes[1] - sizes[2]
       IN  /\ 10 * diff >= 4 * (sizes[1] + sizes[2])
           /\ 10 * diff <= 5 * (sizes[1] + sizes[2])

\* C25: the estimate lies in [0, 1], and no coefficient of variation gets a
\* higher estimate than the moderate ones do (0.4 to 0.5): the estimate of
\* every size list is at most the estimate of some list of moderate
\* variation.
C25_PcaVariance ==
    Estimated =>
        /\ ~Less(call.result, Frac(0, 1))
        /\ ~Less(Frac(1, 1), call.result)
        /\ \E m \in SizeLists :
              /\ ModerateCV(m)
              /\ ~Less(_estimate_pca_variance(m), call.result)

\* the reply comes from a call that searched the local corpus
LocalSearched == \E c \in reply.searched : c.corpus = "local"

\* C26: whatever LOCAL_DOCS_PATH was changed to before the call, a query
\* that searches the local corpus searches the indexer built for the
\* current path, and a local query made while the path is unset reports
\* that local search is not configured.
C26_PathChange ==
    (Replied /\ reply.ready /\ reply.outcome # "exception") =>
        /\ LocalSearched =>
              /\ local_indexer # None
              /\ environ.LOCAL_DOCS_PATH # NoStr
              /\ local_indexer.directory_path = environ.LOCAL_DOCS_PATH
        /\ (reply.source = "local" /\ environ.LOCAL_DOCS_PATH = NoStr) =>
              reply.text = MsgLocalNotConfigured

\* C27: whenever the ready flag becomes true while LOCAL_DOCS_PATH is set,
\* the initialisation of the local indexer for that path has been attempted
\* (successfully or not), also when the Wikipedia initialisation failed.
C27_LocalAttempted ==
    [][(~_indexers_initialized /\ _indexers_initialized' /\ environ.LOCAL_DOCS_PATH # NoStr)
          => _local_docs_path_cached' = environ.LOCAL_DOCS_PATH]_vars

\* C28: on every entry path the background initialisation eventually sets
\* _indexers_initialized, whether the builds succeed or raise, and the flag
\* never returns to false.
C28_EventuallyReady == <>[](_indexers_initialized)

\* a call on the directly used WikiIndexer has just returned or raised
WikiCalled == call.op \in {"wiki_build_index", "load_or_build"}

\* C29: after any sequence of load_or_build and build_index calls on a
\* WikiIndexer the lexical index and the document list describe the same
\* documents in the same order (so they have the same length), and the
\* identifiers handed to the vector store are pairwise distinct.
C29_WikiAligned ==
    WikiCalled =>
        /\ indexers[1].bm25 # None =>
              /\ Len(indexers[1].bm25.corpus) = Len(indexers[1].documents)
              /\ \A i \in 1..Len(indexers[1].documents) :
                    indexers[1].documents[i].text = Preview(indexers[1].bm25.corpus[i])
        /\ \A i, j \in 1..Len(call.ids) : call.ids[i] = call.ids[j] => i = j

\* the input of the call is n >= 2 chunks of one content of at least 100
\* characters
IdenticalCopies ==
    /\ Len(call.chunks) >= 2
    /\ \A k \in 1..Len(call.chunks) : call.chunks[k].page_content = call.chunks[1].page_content
    /\ TextLen(Strip(call.chunks[1].page_content)) >= 100

\* C30: of n >= 2 chunks with identical content of at least 100 characters
\* clean_chunks with boilerplate detection returns exactly the first and
\* reports n - 1 exact duplicates.
C30_IdenticalCopies ==
    (Cleaned /\ call.detect_boilerplate /\ IdenticalCopies) =>
        /\ call.result.cleaned = <<call.chunks[1]>>
        /\ call.result.exact_duplicates_removed = Len(call.chunks) - 1

====
